---- MODULE Spec2Model ----
(***************************************************************************)
(* Model of main_proper_ddp.py: the coordinator main(), the per-worker     *)
(* run() with its configuration and execution loops over                   *)
(* hydra_config.tasks, and ddp_setup()/destroy_process_group().            *)
(*                                                                         *)
(* Processes: process 0 is the coordinating process; process r+1 is the    *)
(* child that mp.spawn starts for rank r.  hydra_tasks[p] is the content   *)
(* of hydra_config.tasks in the memory of process p: a spawned child works *)
(* on the pickled copy it received, an inline run() works on the           *)
(* coordinator's own object.                                               *)
(***************************************************************************)
EXTENDS Integers, Sequences, FiniteSets, TLC

\* ---------------------------------------------------------------- bounds
MaxGpus == 2
MaxTasks == 2
MaxLaunches == 2

\* ---------------------------------------------------------------- inputs
\* accelerator identifiers that may be listed in hydra_config.gpu_list
GpuIds == {0, 2, 3}

\* values of hydra_config.kind; "other" stands for any string but cnn / gnn
Kinds == {"cnn", "gnn", "other"}

\* the configuration sections run() looks for, in the order of its if-blocks
Sections == <<"data_loaders", "optimizers", "scheduler", "loss">>

SectionSet == {Sections[i] : i \in 1..Len(Sections)}

\* task names of hydra_config.tasks; the engine has a method for the first two
EngineTasks == {"train", "evaluate"}

TaskNames == EngineTasks \cup {"predict"}

\* the descriptions a task may have in hydra_config.tasks: the keys of the
\* ordered mapping, in their order; "epochs" is a keyword argument of the
\* task, the others are configuration sections
KeyOrders(name) ==
    IF name = "train"
    THEN { <<"scheduler", "loss", "epochs", "optimizers", "data_loaders">> }
    ELSE IF name = "evaluate"
    THEN { <<"loss", "epochs">> }
    ELSE { <<"loss">> }

\* ---------------------------------------------------------------- helpers
Range(s) == {s[i] : i \in 1..Len(s)}

SeqsUpTo(S, n) == UNION {[1..k -> S] : k \in 0..n}

\* s without its entries whose key is k (DictConfig.pop(k))
RECURSIVE Without(_, _)
Without(s, k) ==
    IF s = <<>> THEN <<>>
    ELSE IF Head(s).k = k THEN Without(Tail(s), k)
         ELSE <<Head(s)>> \o Without(Tail(s), k)

\* 'k in task_config'
Has(cfg, k) == \E i \in 1..Len(cfg) : cfg[i].k = k

\* the value stored under key k (the value task_config.pop(k) returns)
Get(cfg, k) == cfg[CHOOSE i \in 1..Len(cfg) : cfg[i].k = k].v

\* the task description of task `name` with its keys in the order `keys`;
\* the value under key k of task t is written <<t, k>>
TaskConfig(name, keys) == [i \in 1..Len(keys) |-> [k |-> keys[i], v |-> <<name, keys[i]>>]]

\* hydra_config.gpu_list: distinct identifiers, listed in increasing order
GpuLists ==
    {g \in SeqsUpTo(GpuIds, MaxGpus) : \A i, j \in 1..Len(g) : i < j => g[i] < g[j]}

\* one item of hydra_config.tasks: a task name and its description
TaskEntries == UNION {{[name |-> n, cfg |-> TaskConfig(n, ko)] : ko \in KeyOrders(n)} : n \in TaskNames}

\* hydra_config.tasks: an ordered mapping, so task names are distinct
TaskLists ==
    {t \in SeqsUpTo(TaskEntries, MaxTasks) :
        \A i, j \in 1..Len(t) : i # j => t[i].name # t[j].name}

Ranks == 0..(MaxGpus - 1)

Procs == 0..MaxGpus

\* the launches of main() on one dump_path other than the one modelled in full
Others == 1..(MaxLaunches - 1)

\* ---------------------------------------------------------------- state
VARIABLES
    gpu_list,      \* hydra_config.gpu_list
    kind,          \* hydra_config.kind
    tasks0,        \* hydra_config.tasks as loaded, before run() consumes sections
    dir_exists,    \* os.path.exists(dump_path); the path is absent when the launches start
    pc_main,       \* position of the coordinator in main()
    dataset,       \* main()'s local variable dataset: "unset", "None" or "built"
    builds,        \* processes that have called build_dataset, in call order
    hydra_tasks,   \* hydra_tasks[p]: hydra_config.tasks in the memory of process p
    worker,        \* worker[r]: the run() invocation with rank r
    log_main,      \* what main() has done so far, in order
    others         \* others[l]: position of another launch of main() on the same dump_path

vars == <<gpu_list, kind, tasks0, dir_exists, pc_main, dataset, builds, hydra_tasks, worker,
         log_main, others>>

\* a run() invocation that has not been started
NoWorker ==
    [pc |-> "unborn", proc |-> 0, dataset |-> "unset",
     device |-> <<"unset", 0>>,
     pg |-> "none", pg_rank |-> 0, pg_world |-> 0,
     model |-> [built |-> FALSE, device |-> <<"unset", 0>>, use_dpp |-> FALSE],
     engine |-> [built |-> FALSE, rank |-> 0, device |-> <<"unset", 0>>],
     i |-> 1, calls |-> <<>>]

Init ==
    /\ gpu_list \in GpuLists
    /\ kind \in Kinds
    /\ dir_exists = FALSE
    /\ pc_main = "exists"
    /\ dataset = "unset"
    /\ builds = <<>>
    /\ tasks0 \in TaskLists
    /\ hydra_tasks = [p \in Procs |-> IF p = 0 THEN tasks0 ELSE <<>>]
    /\ worker = [r \in Ranks |-> NoWorker]
    /\ log_main = <<>>
    /\ others = [l \in Others |-> "exists"]

\* ---------------------------------------------------------------- main()
\* the test of line 72 inverted: the directory is created when it is there
main_exists_inverted ==
    /\ pc_main = "exists"
    /\ pc_main' = IF dir_exists THEN "makedirs" ELSE "dataset"
    /\ UNCHANGED <<others, log_main, gpu_list, kind, tasks0, dir_exists, dataset, builds, hydra_tasks, worker>>

\* line 72: if not os.path.exists(dump_path)
main_exists ==
    /\ pc_main = "exists"
    /\ pc_main' = IF dir_exists THEN "dataset" ELSE "makedirs"
    /\ UNCHANGED <<others, log_main, gpu_list, kind, tasks0, dir_exists, dataset, builds, hydra_tasks, worker>>

\* line 74: os.makedirs(dump_path), which raises FileExistsError when the
\* directory is there
main_makedirs ==
    /\ pc_main = "makedirs"
    /\ IF dir_exists
       THEN /\ pc_main' = "failed"
            /\ UNCHANGED <<dir_exists, log_main>>
       ELSE /\ dir_exists' = TRUE
            /\ pc_main' = "dataset"
            /\ log_main' = Append(log_main, "makedirs")
    /\ UNCHANGED <<others, gpu_list, kind, tasks0, dataset, builds, hydra_tasks, worker>>

\* the length of gpu_list examined before the dataset is built
main_dataset_classified ==
    /\ pc_main = "dataset"
    /\ IF kind = "gnn"
       THEN /\ dataset' = "built"
            /\ builds' = Append(builds, 0)
            /\ log_main' = log_main \o <<"len(gpu_list)", "build_dataset">>
       ELSE /\ dataset' = "None"
            /\ log_main' = Append(log_main, "len(gpu_list)")
            /\ UNCHANGED builds
    /\ pc_main' = "launch"
    /\ UNCHANGED <<others, gpu_list, kind, tasks0, dir_exists, hydra_tasks, worker>>

\* lines 80-83: the dataset is built in the coordinator for kind 'gnn' only
main_dataset ==
    /\ pc_main = "dataset"
    /\ IF kind = "gnn"
       THEN /\ dataset' = "built"
            /\ builds' = Append(builds, 0)
            /\ log_main' = Append(log_main, "build_dataset")
       ELSE /\ dataset' = "None"
            /\ UNCHANGED <<builds, log_main>>
    /\ pc_main' = "launch"
    /\ UNCHANGED <<others, gpu_list, kind, tasks0, dir_exists, hydra_tasks, worker>>

\* run(rank, gpu_list, dataset, hydra_config) entered in process p
StartRun(p, ds) == [NoWorker EXCEPT !.pc = "setup", !.proc = p, !.dataset = ds]

\* lines 86-92: the length of gpu_list is examined; with zero or one
\* accelerator run() is called inline with rank 0
main_inline ==
    /\ pc_main = "launch"
    /\ Len(gpu_list) <= 1
    /\ worker' = [worker EXCEPT ![0] = StartRun(0, dataset)]
    /\ pc_main' = "inline"
    /\ log_main' = log_main \o <<"len(gpu_list)", "run">>
    /\ UNCHANGED <<others, gpu_list, kind, tasks0, dir_exists, dataset, builds, hydra_tasks>>

\* the workers started on the coordinator's own hydra_config object instead of
\* on copies of it
main_spawn_shared ==
    /\ pc_main = "launch"
    /\ Len(gpu_list) > 1
    /\ worker' = [r \in Ranks |->
                    IF r < Len(gpu_list) THEN StartRun(0, dataset) ELSE worker[r]]
    /\ pc_main' = "join"
    /\ log_main' = log_main \o <<"len(gpu_list)", "mp.spawn">>
    /\ UNCHANGED <<others, gpu_list, kind, tasks0, dir_exists, dataset, builds, hydra_tasks>>

\* lines 94-105: mp.spawn starts len(gpu_list) children, child i runs
\* run(i, gpu_list, dataset, hydra_config) on pickled copies of the arguments
main_spawn ==
    /\ pc_main = "launch"
    /\ Len(gpu_list) > 1
    /\ worker' = [r \in Ranks |->
                    IF r < Len(gpu_list) THEN StartRun(r + 1, dataset) ELSE worker[r]]
    /\ hydra_tasks' = [p \in Procs |->
                    IF p >= 1 /\ p <= Len(gpu_list) THEN hydra_tasks[0] ELSE hydra_tasks[p]]
    /\ pc_main' = "join"
    /\ log_main' = log_main \o <<"len(gpu_list)", "mp.spawn">>
    /\ UNCHANGED <<others, gpu_list, kind, tasks0, dir_exists, dataset, builds>>

\* the inline run() returns to, or raises into, main()
main_return ==
    /\ pc_main = "inline"
    /\ worker[0].pc \in {"done", "failed"}
    /\ pc_main' = IF worker[0].pc = "done" THEN "done" ELSE "failed"
    /\ UNCHANGED <<others, log_main, gpu_list, kind, tasks0, dir_exists, dataset, builds, hydra_tasks, worker>>

Spawned == {r \in Ranks : worker[r].pc # "unborn"}

\* mp.spawn returning as soon as one child has exited normally
main_join_any ==
    /\ pc_main = "join"
    /\ \E r \in Spawned : worker[r].pc = "done"
    /\ pc_main' = "done"
    /\ UNCHANGED <<others, log_main, gpu_list, kind, tasks0, dir_exists, dataset, builds, hydra_tasks, worker>>

\* lines 101-105: mp.spawn joins the children; it returns once all have exited
\* normally
main_join ==
    /\ pc_main = "join"
    /\ \A r \in Spawned : worker[r].pc = "done"
    /\ pc_main' = "done"
    /\ UNCHANGED <<others, log_main, gpu_list, kind, tasks0, dir_exists, dataset, builds, hydra_tasks, worker>>

\* lines 101-105: when a child has exited with an error, mp.spawn terminates
\* the children still alive and raises in main()
main_join_failed ==
    /\ pc_main = "join"
    /\ \E r \in Spawned : worker[r].pc = "failed"
    /\ worker' = [r \in Ranks |->
                    IF r \in Spawned /\ worker[r].pc \notin {"done", "failed"}
                    THEN [worker[r] EXCEPT !.pc = "killed"] ELSE worker[r]]
    /\ pc_main' = "failed"
    /\ UNCHANGED <<others, log_main, gpu_list, kind, tasks0, dir_exists, dataset, builds, hydra_tasks>>

\* ---------------------------------------------------------------- run()
\* a call made by run(): ph is "pg" for the process group, "build" for the
\* model and the engine, and "set", "cfg" or "task" for the engine's methods;
\* args are the positional arguments, kwargs the keyword arguments
Call(ph, m, args, kwargs) == [ph |-> ph, m |-> m, args |-> args, kwargs |-> kwargs]

\* line 111: device = 'cpu' if len(gpu_list) == 0 else rank
Device(gl, rank) == IF Len(gl) = 0 THEN <<"cpu", 0>> ELSE <<"cuda", rank>>

\* ddp_setup that registers every worker as rank 0
ddp_setup_rank0(w, rank, world_size) ==
    [w EXCEPT !.pg = "up", !.pg_rank = 0, !.pg_world = world_size,
              !.calls = Append(@, Call("pg", "init_process_group", <<>>, <<>>))]

\* lines 180-191: init_process_group(rank=rank, world_size=world_size)
ddp_setup(w, rank, world_size) ==
    [w EXCEPT !.pg = "up", !.pg_rank = rank, !.pg_world = world_size,
              !.calls = Append(@, Call("pg", "init_process_group", <<>>, <<>>))]

\* run_setup that sets the process group up for one accelerator too
run_setup_single(r) ==
    /\ worker[r].pc = "setup"
    /\ LET w == [worker[r] EXCEPT !.device = Device(gpu_list, r), !.pc = "build_model"]
       IN  worker' = [worker EXCEPT ![r] =
                        IF Len(gpu_list) > 0
                        THEN [w EXCEPT !.pg = "up", !.pg_rank = r, !.pg_world = Len(gpu_list),
                                       !.calls = Append(@, Call("pg", "init_process_group", <<>>, <<>>))]
                        ELSE w]
    /\ UNCHANGED <<others, log_main, gpu_list, kind, tasks0, dir_exists, pc_main, dataset, builds, hydra_tasks>>

\* lines 111-115: the device is chosen and, with more than one accelerator,
\* the process group is initialized
run_setup(r) ==
    /\ worker[r].pc = "setup"
    /\ LET w == [worker[r] EXCEPT !.device = Device(gpu_list, r), !.pc = "build_model"]
       IN  worker' = [worker EXCEPT ![r] =
                        IF Len(gpu_list) > 1 THEN ddp_setup(w, r, Len(gpu_list)) ELSE w]
    /\ UNCHANGED <<others, log_main, gpu_list, kind, tasks0, dir_exists, pc_main, dataset, builds, hydra_tasks>>

\* build_model called first and the process group initialized after it
run_build_model_early(r) ==
    /\ worker[r].pc = "build_model"
    /\ worker' = [worker EXCEPT ![r].model =
                        [built |-> TRUE, device |-> worker[r].device,
                         use_dpp |-> (Len(gpu_list) > 1)],
                    ![r].calls = IF Len(gpu_list) > 1
                                 THEN SubSeq(@, 1, Len(@) - 1)
                                      \o <<Call("build", "build_model", <<>>, <<>>),
                                           Call("pg", "init_process_group", <<>>, <<>>)>>
                                 ELSE Append(@, Call("build", "build_model", <<>>, <<>>)),
                    ![r].pc = "instantiate"]
    /\ UNCHANGED <<others, log_main, gpu_list, kind, tasks0, dir_exists, pc_main, dataset, builds, hydra_tasks>>

\* lines 118-122: build_model(model_config, device, use_dpp)
run_build_model(r) ==
    /\ worker[r].pc = "build_model"
    /\ worker' = [worker EXCEPT ![r].model =
                        [built |-> TRUE, device |-> worker[r].device,
                         use_dpp |-> (Len(gpu_list) > 1)],
                    ![r].calls = Append(@, Call("build", "build_model", <<>>, <<>>)),
                    ![r].pc = "instantiate"]
    /\ UNCHANGED <<others, log_main, gpu_list, kind, tasks0, dir_exists, pc_main, dataset, builds, hydra_tasks>>

\* run_instantiate in which the worker builds the dataset itself
run_instantiate_rebuild(r) ==
    /\ worker[r].pc = "instantiate"
    /\ builds' = IF kind = "gnn" THEN Append(builds, worker[r].proc) ELSE builds
    /\ worker' = [worker EXCEPT
                    ![r].engine = [built |-> TRUE, rank |-> r, device |-> worker[r].device],
                    ![r].calls = IF kind = "gnn"
                                 THEN @ \o <<Call("build", "instantiate", <<>>, <<>>),
                                             Call("set", "set_dataset", <<<<"built">>>>, <<>>)>>
                                 ELSE Append(@, Call("build", "instantiate", <<>>, <<>>)),
                    ![r].pc = IF Len(hydra_tasks[worker[r].proc]) = 0
                              THEN "teardown" ELSE "configure"]
    /\ UNCHANGED <<others, log_main, gpu_list, kind, tasks0, dir_exists, pc_main, dataset, hydra_tasks>>

\* lines 125-135: the engine is instantiated and, for kind 'gnn', handed the
\* dataset that run() received
run_instantiate(r) ==
    /\ worker[r].pc = "instantiate"
    /\ worker' = [worker EXCEPT
                    ![r].engine = [built |-> TRUE, rank |-> r, device |-> worker[r].device],
                    ![r].calls = IF kind = "gnn"
                                 THEN @ \o <<Call("build", "instantiate", <<>>, <<>>),
                                             Call("set", "set_dataset", <<<<worker[r].dataset>>>>, <<>>)>>
                                 ELSE Append(@, Call("build", "instantiate", <<>>, <<>>)),
                    ![r].pc = IF Len(hydra_tasks[worker[r].proc]) = 0
                              THEN "teardown" ELSE "configure"]
    /\ UNCHANGED <<others, log_main, gpu_list, kind, tasks0, dir_exists, pc_main, dataset, builds, hydra_tasks>>

\* The state of one iteration of the configuration loop: the task description,
\* the engine calls made so far and whether an exception is propagating.
\* `bad` is the number of the section whose configure call raises (0: none).

\* the data_loaders block with 'case _' treated like 'gnn' instead of raising
ConfigureDataLoaders_else(st, k, bad) ==
    IF st.err \/ ~Has(st.cfg, "data_loaders") THEN st
    ELSE [cfg |-> Without(st.cfg, "data_loaders"),
          calls |-> Append(st.calls,
                           IF k = "cnn"
                           THEN [ph |-> "cfg", m |-> "configure_data_loaders", kwargs |-> <<>>,
                                 args |-> <<<<"data">>, Get(st.cfg, "data_loaders")>>]
                           ELSE [ph |-> "cfg", m |-> "configure_data_loaders_v2", kwargs |-> <<>>,
                                 args |-> <<Get(st.cfg, "data_loaders")>>]),
          err |-> (bad = 1)]

\* the data_loaders block with the two entry points exchanged
ConfigureDataLoaders_swapped(st, k, bad) ==
    IF st.err \/ ~Has(st.cfg, "data_loaders") THEN st
    ELSE IF k = "gnn"
    THEN [cfg |-> Without(st.cfg, "data_loaders"),
          calls |-> Append(st.calls,
                           [ph |-> "cfg", m |-> "configure_data_loaders", kwargs |-> <<>>,
                            args |-> <<<<"data">>, Get(st.cfg, "data_loaders")>>]),
          err |-> (bad = 1)]
    ELSE IF k = "cnn"
    THEN [cfg |-> Without(st.cfg, "data_loaders"),
          calls |-> Append(st.calls,
                           [ph |-> "cfg", m |-> "configure_data_loaders_v2", kwargs |-> <<>>,
                            args |-> <<Get(st.cfg, "data_loaders")>>]),
          err |-> (bad = 1)]
    ELSE [st EXCEPT !.err = TRUE]

\* the data_loaders block with the kind validated whether or not the task has
\* a data_loaders section
ConfigureDataLoaders_strict(st, k, bad) ==
    IF st.err THEN st
    ELSE IF k \notin {"cnn", "gnn"} THEN [st EXCEPT !.err = TRUE]
    ELSE IF ~Has(st.cfg, "data_loaders") THEN st
    ELSE [cfg |-> Without(st.cfg, "data_loaders"),
          calls |-> Append(st.calls,
                           IF k = "cnn"
                           THEN Call("cfg", "configure_data_loaders",
                                     <<<<"data">>, Get(st.cfg, "data_loaders")>>, <<>>)
                           ELSE Call("cfg", "configure_data_loaders_v2",
                                     <<Get(st.cfg, "data_loaders")>>, <<>>)),
          err |-> (bad = 1)]

\* lines 143-156: the data_loaders block
ConfigureDataLoaders(st, k, bad) ==
    IF st.err \/ ~Has(st.cfg, "data_loaders") THEN st
    ELSE IF k = "cnn"
    THEN [cfg |-> Without(st.cfg, "data_loaders"),
          calls |-> Append(st.calls, Call("cfg", "configure_data_loaders",
                                          <<<<"data">>, Get(st.cfg, "data_loaders")>>, <<>>)),
          err |-> (bad = 1)]
    ELSE IF k = "gnn"
    THEN [cfg |-> Without(st.cfg, "data_loaders"),
          calls |-> Append(st.calls, Call("cfg", "configure_data_loaders_v2",
                                          <<Get(st.cfg, "data_loaders")>>, <<>>)),
          err |-> (bad = 1)]
    ELSE [st EXCEPT !.err = TRUE]

\* a section block that reads the section without removing it
ConfigureSection_keep(st, j, bad) ==
    IF st.err \/ ~Has(st.cfg, Sections[j]) THEN st
    ELSE [cfg |-> st.cfg,
          calls |-> Append(st.calls, [ph |-> "cfg", m |-> "configure_" \o Sections[j],
                                      args |-> <<Get(st.cfg, Sections[j])>>, kwargs |-> <<>>]),
          err |-> (bad = j)]

\* lines 159-160, 163-164, 167-168: the block of section number j
\* (optimizers, scheduler or loss)
ConfigureSection(st, j, bad) ==
    IF st.err \/ ~Has(st.cfg, Sections[j]) THEN st
    ELSE [cfg |-> Without(st.cfg, Sections[j]),
          calls |-> Append(st.calls, Call("cfg", "configure_" \o Sections[j],
                                          <<Get(st.cfg, Sections[j])>>, <<>>)),
          err |-> (bad = j)]

\* the sections applied in the order in which the description lists its keys
RECURSIVE ApplyInKeyOrder(_, _, _, _)
ApplyInKeyOrder(keys, st, k, bad) ==
    IF keys = <<>> THEN st
    ELSE ApplyInKeyOrder(
            Tail(keys),
            IF Head(keys) = "data_loaders" THEN ConfigureDataLoaders(st, k, bad)
            ELSE IF Head(keys) \in SectionSet
                 THEN ConfigureSection(st, CHOOSE j \in 1..Len(Sections) : Sections[j] = Head(keys), bad)
                 ELSE st,
            k, bad)

ConfigureTask_keyorder(cfg, calls, k, bad) ==
    ApplyInKeyOrder([i \in 1..Len(cfg) |-> cfg[i].k],
                    [cfg |-> cfg, calls |-> calls, err |-> FALSE], k, bad)

\* lines 140-168: the body of the configuration loop for one task
ConfigureTask(cfg, calls, k, bad) ==
    ConfigureSection(
        ConfigureSection(
            ConfigureSection(
                ConfigureDataLoaders([cfg |-> cfg, calls |-> calls, err |-> FALSE], k, bad),
                2, bad),
            3, bad),
        4, bad)

\* a single loop that configures a task and performs it straight away
run_configure_fused(r) ==
    /\ worker[r].pc = "configure"
    /\ LET p == worker[r].proc
           i == worker[r].i
           last == (i = Len(hydra_tasks[p]))
           st == ConfigureTask(hydra_tasks[p][i].cfg, worker[r].calls, kind, 0)
       IN  /\ hydra_tasks' = [hydra_tasks EXCEPT ![p][i].cfg = st.cfg]
           /\ worker' = [worker EXCEPT
                           ![r].calls = IF st.err THEN st.calls
                                        ELSE Append(st.calls,
                                                    [ph |-> "task", m |-> hydra_tasks[p][i].name,
                                                     args |-> <<>>, kwargs |-> st.cfg]),
                           ![r].i = IF st.err \/ last THEN i ELSE i + 1,
                           ![r].pc = IF st.err THEN "failed"
                                     ELSE IF last THEN "teardown" ELSE "configure"]
    /\ UNCHANGED <<others, log_main, gpu_list, kind, tasks0, dir_exists, pc_main, dataset, builds>>

\* lines 138-168: one iteration of the configuration loop; after the last
\* one the task loop of line 171 starts
run_configure(r) ==
    /\ worker[r].pc = "configure"
    /\ LET p == worker[r].proc
           i == worker[r].i
           last == (i = Len(hydra_tasks[p]))
       IN  \E bad \in 0..Len(Sections) :
             LET st == ConfigureTask(hydra_tasks[p][i].cfg, worker[r].calls, kind, bad)
             IN  /\ hydra_tasks' = [hydra_tasks EXCEPT ![p][i].cfg = st.cfg]
                 /\ worker' = [worker EXCEPT
                                 ![r].calls = st.calls,
                                 ![r].i = IF st.err THEN i ELSE IF last THEN 1 ELSE i + 1,
                                 ![r].pc = IF st.err THEN "failed"
                                           ELSE IF last THEN "perform" ELSE "configure"]
    /\ UNCHANGED <<others, log_main, gpu_list, kind, tasks0, dir_exists, pc_main, dataset, builds>>

\* the task method called without the keyword arguments of its description
PerformTask_nokwargs(w, task, raises, last) ==
    IF task.name \notin EngineTasks
    THEN [w EXCEPT !.pc = "failed"]
    ELSE [w EXCEPT
            !.calls = Append(@, Call("task", task.name, <<>>, <<>>)),
            !.i = IF raises THEN @ ELSE @ + 1,
            !.pc = IF raises THEN "failed" ELSE IF last THEN "teardown" ELSE "perform"]

\* a task the engine has no method for is passed over
PerformTask_skip(w, task, raises, last) ==
    IF task.name \notin EngineTasks
    THEN [w EXCEPT !.i = @ + 1, !.pc = IF last THEN "teardown" ELSE "perform"]
    ELSE [w EXCEPT
            !.calls = Append(@, Call("task", task.name, <<>>, task.cfg)),
            !.i = IF raises THEN @ ELSE @ + 1,
            !.pc = IF raises THEN "failed" ELSE IF last THEN "teardown" ELSE "perform"]

\* getattr(engine, task)(**task_config) appended to the calls of w; `raises`
\* tells whether the method raises
PerformTask(w, task, raises, last) ==
    IF task.name \notin EngineTasks
    THEN [w EXCEPT !.pc = "failed"]
    ELSE [w EXCEPT
            !.calls = Append(@, Call("task", task.name, <<>>, task.cfg)),
            !.i = IF raises THEN @ ELSE @ + 1,
            !.pc = IF raises THEN "failed" ELSE IF last THEN "teardown" ELSE "perform"]

\* the task loop walking hydra_config.tasks from its last item to its first
run_perform_reversed(r) ==
    /\ worker[r].pc = "perform"
    /\ LET p == worker[r].proc
           i == worker[r].i
           n == Len(hydra_tasks[p])
       IN  \E raises \in BOOLEAN :
             worker' = [worker EXCEPT ![r] =
                          PerformTask(worker[r], hydra_tasks[p][n + 1 - i], raises, i = n)]
    /\ UNCHANGED <<others, log_main, gpu_list, kind, tasks0, dir_exists, pc_main, dataset, builds, hydra_tasks>>

\* lines 171-172: one iteration of the task loop; the lookup fails for a name
\* the engine has no method for, and the method itself may raise
run_perform(r) ==
    /\ worker[r].pc = "perform"
    /\ LET p == worker[r].proc
           i == worker[r].i
       IN  \E raises \in BOOLEAN :
             worker' = [worker EXCEPT ![r] =
                          PerformTask(worker[r], hydra_tasks[p][i], raises,
                                      i = Len(hydra_tasks[p]))]
    /\ UNCHANGED <<others, log_main, gpu_list, kind, tasks0, dir_exists, pc_main, dataset, builds, hydra_tasks>>

\* lines 175-176: destroy_process_group() with more than one accelerator
run_teardown(r) ==
    /\ worker[r].pc = "teardown"
    /\ worker' = [worker EXCEPT
                    ![r].pg = IF Len(gpu_list) > 1 THEN "down" ELSE @,
                    ![r].calls = IF Len(gpu_list) > 1
                                 THEN Append(@, Call("pg", "destroy_process_group", <<>>, <<>>))
                                 ELSE @,
                    ![r].pc = "done"]
    /\ UNCHANGED <<others, log_main, gpu_list, kind, tasks0, dir_exists, pc_main, dataset, builds, hydra_tasks>>

run(r) ==
    \/ run_setup(r)
    \/ run_build_model(r)
    \/ run_instantiate(r)
    \/ run_configure(r)
    \/ run_perform(r)
    \/ run_teardown(r)

main ==
    \/ main_exists
    \/ main_makedirs
    \/ main_dataset
    \/ main_inline
    \/ main_spawn
    \/ main_return
    \/ main_join
    \/ main_join_failed

Next == main \/ \E r \in Ranks : run(r)

Spec == Init /\ [][Next]_vars

\* mp.spawn polls its children until it can return or raise, so the two join
\* steps of main() are not postponed forever
SpecJoin == Spec /\ WF_vars(main_join) /\ WF_vars(main_join_failed)

\* ------------------------------------------- concurrent launches on one dump_path
\* line 72 in another launch of main()
other_exists(l) ==
    /\ others[l] = "exists"
    /\ others' = [others EXCEPT ![l] = IF dir_exists THEN "dataset" ELSE "makedirs"]
    /\ UNCHANGED <<log_main, gpu_list, kind, tasks0, dir_exists, pc_main, dataset, builds,
                   hydra_tasks, worker>>

\* line 74 in another launch of main()
other_makedirs(l) ==
    /\ others[l] = "makedirs"
    /\ IF dir_exists
       THEN /\ others' = [others EXCEPT ![l] = "failed"]
            /\ UNCHANGED dir_exists
       ELSE /\ others' = [others EXCEPT ![l] = "dataset"]
            /\ dir_exists' = TRUE
    /\ UNCHANGED <<log_main, gpu_list, kind, tasks0, pc_main, dataset, builds,
                   hydra_tasks, worker>>

\* lines 72-83 of the launch modelled in full, interleaved with lines 72-74 of
\* the other launches
NextRace ==
    \/ main_exists
    \/ main_makedirs
    \/ main_dataset
    \/ \E l \in Others : other_exists(l)
    \/ \E l \in Others : other_makedirs(l)

SpecRace == Init /\ [][NextRace]_vars

\* ---------------------------------------------------------------- properties
Started(r) == worker[r].pc # "unborn"

\* the calls of worker r that belong to phase ph
CallsOf(r, ph) == SelectSeq(worker[r].calls, LAMBDA c : c.ph = ph)

\* the keys of a task description that are configuration sections
SectionsIn(cfg) == {e \in Range(cfg) : e.k \in SectionSet}

\* the worker has left the configuration loop normally
Configured(r) == worker[r].pc \in {"perform", "teardown", "done"}

DataLoaderMethods == {"configure_data_loaders", "configure_data_loaders_v2"}

\* C1: in multi-accelerator mode a worker that initialized the process group
\* has torn it down when it terminates, whether it returned or raised.
C1_TeardownOnEveryExit ==
    \A r \in Ranks :
        worker[r].pc \in {"done", "failed"} => worker[r].pg # "up"

\* C2: within a worker no task method is invoked before the configuration loop
\* has finished for every task: once a task call is made the worker has left
\* the configuration loop, no task description holds a section any more, and no
\* configure call follows a task call.
C2_ConfigureBeforeTasks ==
    \A r \in Ranks :
        LET calls == worker[r].calls
        IN  /\ \A a, b \in 1..Len(calls) :
                    (a < b /\ calls[a].ph = "task") => calls[b].ph # "cfg"
            /\ CallsOf(r, "task") # <<>> =>
                    /\ worker[r].pc # "configure"
                    /\ \A i \in 1..Len(tasks0) :
                            SectionsIn(hydra_tasks[worker[r].proc][i].cfg) = {}

C2_Witness ==
    \E r \in Ranks :
        /\ worker[r].pc = "done"
        /\ Len(CallsOf(r, "cfg")) >= 2
        /\ Len(CallsOf(r, "task")) = 2

\* C3: a worker that completes without error has invoked every task exactly
\* once, in the order of the task list, whatever sections the tasks had.
C3_TasksInListOrder ==
    \A r \in Ranks :
        worker[r].pc = "done" =>
            LET tc == CallsOf(r, "task")
            IN  [i \in 1..Len(tc) |-> tc[i].m] = [i \in 1..Len(tasks0) |-> tasks0[i].name]

C3_Witness ==
    \E r \in Ranks :
        /\ worker[r].pc = "done"
        /\ Len(tasks0) = 2
        /\ Cardinality(SectionsIn(tasks0[1].cfg)) # Cardinality(SectionsIn(tasks0[2].cfg))
        /\ Len(CallsOf(r, "task")) = 2

\* C4: when the configuration loop has finished, every section that a task
\* description held was passed to exactly one configure call, there is no other
\* configure call, no description holds a section any more, and configuring any
\* task again makes no call and leaves its description as it is.
C4_SectionsConsumedOnce ==
    \A r \in Ranks :
        Configured(r) =>
            LET cur == hydra_tasks[worker[r].proc]
                cc == CallsOf(r, "cfg")
                all == UNION {SectionsIn(tasks0[i].cfg) : i \in 1..Len(tasks0)}
            IN  /\ \A e \in all :
                        Cardinality({a \in 1..Len(cc) : e.v \in Range(cc[a].args)}) = 1
                /\ Len(cc) = Cardinality(all)
                /\ \A i \in 1..Len(cur) :
                        /\ SectionsIn(cur[i].cfg) = {}
                        /\ ConfigureTask(cur[i].cfg, <<>>, kind, 0)
                              = [cfg |-> cur[i].cfg, calls |-> <<>>, err |-> FALSE]

C4_Witness ==
    \E r \in Ranks :
        /\ worker[r].pc = "perform"
        /\ Len(tasks0) = 2
        /\ Cardinality(SectionsIn(tasks0[1].cfg)) = 4
        /\ Cardinality(SectionsIn(tasks0[2].cfg)) = 1
        /\ Len(CallsOf(r, "cfg")) = 5

\* the first task of the list whose description has a data_loaders section
FirstDataLoaders ==
    CHOOSE i \in 1..Len(tasks0) :
        /\ Has(tasks0[i].cfg, "data_loaders")
        /\ \A j \in 1..(i - 1) : ~Has(tasks0[j].cfg, "data_loaders")

\* C5: with a kind other than 'cnn' and 'gnn' and a task that has a
\* data_loaders section, no worker gets past the configuration loop (it stops
\* at the first such task) and no task method is invoked.
C5_UnknownKindFails ==
    (kind \notin {"cnn", "gnn"} /\ \E i \in 1..Len(tasks0) : Has(tasks0[i].cfg, "data_loaders")) =>
        \A r \in Ranks :
            /\ worker[r].pc \in {"unborn", "setup", "build_model", "instantiate",
                                 "configure", "failed", "killed"}
            /\ CallsOf(r, "task") = <<>>
            /\ worker[r].i <= FirstDataLoaders
            /\ \A a \in 1..Len(worker[r].calls) :
                    worker[r].calls[a].m \notin DataLoaderMethods

C5_Witness ==
    \E r \in Ranks :
        /\ kind = "other"
        /\ worker[r].pc = "failed"
        /\ worker[r].i = 2
        /\ Len(CallsOf(r, "cfg")) = 1
        /\ Has(tasks0[2].cfg, "data_loaders")
        /\ Has(hydra_tasks[worker[r].proc][2].cfg, "data_loaders")

\* C6 as stated: each data_loaders section goes to configure_data_loaders for
\* kind 'cnn' and to configure_data_loaders_v2 for kind 'gnn', in both cases
\* together with the run-level data configuration.
C6_DataConfigPassedToBoth ==
    \A r \in Ranks :
        \A a \in 1..Len(worker[r].calls) :
            LET c == worker[r].calls[a]
            IN  c.m \in DataLoaderMethods =>
                    /\ (c.m = "configure_data_loaders") = (kind = "cnn")
                    /\ (c.m = "configure_data_loaders_v2") = (kind = "gnn")
                    /\ Len(c.args) = 2
                    /\ c.args[1] = <<"data">>

\* the tasks whose iteration of the configuration loop worker r has completed
ConfiguredTasks(r) ==
    IF worker[r].pc = "configure" THEN 1..(worker[r].i - 1)
    ELSE IF Configured(r) THEN 1..Len(tasks0)
    ELSE {}

\* C6 (amended): a data_loaders section goes to configure_data_loaders together
\* with the run-level data configuration for kind 'cnn', and to
\* configure_data_loaders_v2 on its own for kind 'gnn'; the section is removed
\* from the task description.
C6_DataLoadersDispatch ==
    \A r \in Ranks :
        LET calls == worker[r].calls
            cur == hydra_tasks[worker[r].proc]
            expected(t) ==
                IF kind = "cnn"
                THEN Call("cfg", "configure_data_loaders",
                          <<<<"data">>, <<t, "data_loaders">>>>, <<>>)
                ELSE Call("cfg", "configure_data_loaders_v2",
                          <<<<t, "data_loaders">>>>, <<>>)
        IN  /\ \A a \in 1..Len(calls) :
                    calls[a].m \in DataLoaderMethods =>
                        /\ kind \in {"cnn", "gnn"}
                        /\ \E i \in 1..Len(tasks0) :
                                /\ Has(tasks0[i].cfg, "data_loaders")
                                /\ calls[a] = expected(tasks0[i].name)
                                /\ ~Has(cur[i].cfg, "data_loaders")
            /\ \A i \in ConfiguredTasks(r) :
                    Has(tasks0[i].cfg, "data_loaders") =>
                        /\ Cardinality({a \in 1..Len(calls) :
                                            calls[a] = expected(tasks0[i].name)}) = 1
                        /\ ~Has(cur[i].cfg, "data_loaders")

C6_Witness ==
    \E r \in Ranks :
        /\ kind = "gnn"
        /\ Configured(r)
        /\ \E a \in 1..Len(worker[r].calls) :
                /\ worker[r].calls[a].m = "configure_data_loaders_v2"
                /\ worker[r].calls[a].args = <<<<"train", "data_loaders">>>>

\* C7: with at most one accelerator listed there is one run() invocation, it
\* has rank 0, it runs in the coordinating process without gradient
\* synchronisation, and no process group is initialized or destroyed.
C7_SingleInlineWorker ==
    Len(gpu_list) <= 1 =>
        /\ \A r \in Ranks : r # 0 => ~Started(r)
        /\ \A r \in Ranks : worker[r].pg = "none"
        /\ pc_main # "join"
        /\ Started(0) = (pc_main \in {"inline", "done", "failed"})
        /\ Started(0) => worker[0].proc = 0
        /\ worker[0].engine.built => worker[0].engine.rank = 0
        /\ worker[0].model.built => ~worker[0].model.use_dpp

C7_Witness ==
    /\ Len(gpu_list) = 1
    /\ gpu_list[1] # 0
    /\ pc_main = "done"
    /\ worker[0].pc = "done"
    /\ worker[0].engine.built

\* C8: with n >= 2 accelerators listed the coordinator starts n workers with
\* the ranks 0..n-1, each in a process of its own, and a worker that has
\* requested its model has initialized the process group with its own rank
\* and world size n.
C8_SpawnedRanks ==
    Len(gpu_list) >= 2 =>
        /\ Spawned = IF pc_main \in {"join", "done", "failed"}
                     THEN 0..(Len(gpu_list) - 1) ELSE {}
        /\ pc_main # "inline"
        /\ \A r \in Spawned : worker[r].proc = r + 1
        /\ \A r \in Ranks :
                (worker[r].model.built \/ worker[r].pc \notin {"unborn", "setup", "killed"}) =>
                    /\ worker[r].pg # "none"
                    /\ worker[r].pg_rank = r
                    /\ worker[r].pg_world = Len(gpu_list)
        /\ \A r \in Ranks : worker[r].model.built => worker[r].model.use_dpp

C8_Witness ==
    /\ Len(gpu_list) = 2
    /\ \A r \in 0..1 : worker[r].model.built /\ worker[r].pg = "up"

\* C9: a worker's device is 'cpu' for an empty accelerator list, the listed
\* accelerator for a list of one, and otherwise an entry of the list, distinct
\* ranks having distinct entries.
C9_DeviceIsListedAccelerator ==
    \A r \in Ranks :
        worker[r].device[1] # "unset" =>
            /\ Len(gpu_list) = 0 => worker[r].device = <<"cpu", 0>>
            /\ Len(gpu_list) = 1 => worker[r].device = <<"cuda", gpu_list[1]>>
            /\ Len(gpu_list) >= 2 =>
                    /\ worker[r].device[1] = "cuda"
                    /\ worker[r].device[2] \in Range(gpu_list)
                    /\ \A q \in Ranks \ {r} :
                            worker[q].device[1] # "unset" => worker[q].device # worker[r].device

\* C10: build_dataset is called at most once, by the coordinating process
\* only, for kind 'gnn' only and before any worker starts; every worker is
\* handed the coordinator's value and hands that value to set_dataset.
C10_DatasetBuiltOnce ==
    /\ Len(builds) <= 1
    /\ \A b \in Range(builds) : b = 0
    /\ kind # "gnn" => builds = <<>> /\ dataset \in {"unset", "None"}
    /\ (kind = "gnn" /\ pc_main \notin {"exists", "makedirs", "dataset"}) =>
            builds = <<0>> /\ dataset = "built"
    /\ \A r \in Ranks :
            Started(r) =>
                /\ dataset # "unset"
                /\ worker[r].dataset = dataset
                /\ \A a \in 1..Len(worker[r].calls) :
                        worker[r].calls[a].m = "set_dataset" =>
                            worker[r].calls[a].args = <<<<dataset>>>>

C10_Witness ==
    /\ Len(gpu_list) = 2
    /\ kind = "gnn"
    /\ \A r \in 0..1 : CallsOf(r, "set") # <<>>

\* C11: launches that run concurrently on one dump_path, absent at first, all
\* get past the creation of the directory: none of them fails, and once they
\* are all past it the directory exists.
C11_RaceTolerantMakedirs ==
    /\ pc_main # "failed"
    /\ \A l \in Others : others[l] # "failed"
    /\ (pc_main \notin {"exists", "makedirs"} /\ \A l \in Others : others[l] = "dataset")
            => dir_exists

\* the keyword arguments hydra_config.tasks holds for the task named n when it
\* is loaded: its keys that are no configuration section, with their values
LoadedKwargs(n) ==
    LET i == CHOOSE j \in 1..Len(tasks0) : tasks0[j].name = n
    IN  SelectSeq(tasks0[i].cfg, LAMBDA e : e.k \notin SectionSet)

\* C12: a task method is invoked with the keys of its task description that
\* are no recognized section, each with its original value: no section is
\* passed and no other key is dropped.
C12_RemainingKwargs ==
    \A r \in Ranks :
        \A a \in 1..Len(worker[r].calls) :
            LET c == worker[r].calls[a]
            IN  c.ph = "task" =>
                    /\ \E j \in 1..Len(tasks0) : tasks0[j].name = c.m
                    /\ c.kwargs = LoadedKwargs(c.m)
                    /\ \A e \in Range(c.kwargs) : e.k \notin SectionSet

C12_Witness ==
    \E r \in Ranks :
        \E a \in 1..Len(worker[r].calls) :
            /\ worker[r].calls[a].ph = "task"
            /\ worker[r].calls[a].m = "train"
            /\ worker[r].calls[a].kwargs = <<[k |-> "epochs", v |-> <<"train", "epochs">>]>>
            /\ Cardinality(SectionsIn(tasks0[1].cfg)) = 4
            /\ tasks0[1].name = "train"

\* the place of a call in the life of a worker: process-group initialization,
\* model construction, engine construction (with set_dataset), configuration
\* phase, execution phase, process-group teardown
Stage(c) ==
    IF c.m = "init_process_group" THEN 1
    ELSE IF c.m = "build_model" THEN 2
    ELSE IF c.ph \in {"build", "set"} THEN 3
    ELSE IF c.ph = "cfg" THEN 4
    ELSE IF c.ph = "task" THEN 5
    ELSE 6

\* the number of calls of method m that worker r has made
Count(r, m) == Cardinality({a \in 1..Len(worker[r].calls) : worker[r].calls[a].m = m})

TotalSections == UNION {SectionsIn(tasks0[i].cfg) : i \in 1..Len(tasks0)}

\* C13: in multi-accelerator mode a worker's calls follow the order
\* process-group initialization, model construction, engine construction,
\* configuration phase, execution phase, process-group teardown; none of the
\* four single steps happens twice, and a worker that completes has made each
\* of them once, with the whole configuration and execution phases in between.
C13_WorkerEventOrder ==
    Len(gpu_list) > 1 =>
        \A r \in Ranks :
            LET calls == worker[r].calls
            IN  /\ \A a \in 1..(Len(calls) - 1) : Stage(calls[a]) <= Stage(calls[a + 1])
                /\ \A m \in {"init_process_group", "build_model", "instantiate",
                             "destroy_process_group"} : Count(r, m) <= 1
                /\ worker[r].pc = "done" =>
                        /\ \A m \in {"init_process_group", "build_model", "instantiate",
                                     "destroy_process_group"} : Count(r, m) = 1
                        /\ Len(CallsOf(r, "cfg")) = Cardinality(TotalSections)
                        /\ Len(CallsOf(r, "task")) = Len(tasks0)

C13_Witness ==
    \E r \in Ranks :
        /\ Len(gpu_list) = 2
        /\ worker[r].pc = "done"
        /\ Len(CallsOf(r, "cfg")) = 5
        /\ Len(CallsOf(r, "task")) = 2
        /\ worker[r].calls[1].m = "init_process_group"
        /\ worker[r].calls[Len(worker[r].calls)].m = "destroy_process_group"

\* the steps of main() that start run(): the inline call and mp.spawn
StartSteps == {"run", "mp.spawn"}

\* C14: in the coordinator the output directory, absent at first, is created
\* before the dataset is built or set to None, and the dataset is built before
\* any worker starts, inline or spawned.
C14_CoordinatorOrder ==
    /\ \A a \in 1..Len(log_main) : log_main[a] = "makedirs" => a = 1
    /\ \A a, b \in 1..Len(log_main) :
            (log_main[a] = "build_dataset" /\ log_main[b] \in StartSteps) => a < b
    /\ (dataset # "unset" \/ builds # <<>>) =>
            /\ dir_exists
            /\ log_main # <<>> /\ log_main[1] = "makedirs"
    /\ \A r \in Ranks :
            Started(r) =>
                /\ dir_exists
                /\ dataset # "unset"
                /\ kind = "gnn" => "build_dataset" \in Range(log_main)
                /\ \E b \in 1..Len(log_main) : log_main[b] \in StartSteps

C14_Witness ==
    /\ kind = "gnn"
    /\ log_main = <<"makedirs", "build_dataset", "len(gpu_list)", "mp.spawn">>
    /\ \A r \in 0..1 : worker[r].pc = "done"

Terminated(r) == worker[r].pc \in {"done", "failed", "killed"}

\* C16: in multi-accelerator mode main() is past mp.spawn only when every
\* spawned worker has terminated, and it has returned normally only when all
\* of them completed; once all workers have terminated, main() gets past
\* mp.spawn.
C16_JoinWaitsForAll ==
    /\ [](  (Len(gpu_list) > 1 /\ pc_main \in {"done", "failed"}) =>
                /\ Spawned = 0..(Len(gpu_list) - 1)
                /\ \A r \in Spawned : Terminated(r)
                /\ pc_main = "done" => \A r \in Spawned : worker[r].pc = "done")
    /\ (pc_main = "join" /\ \A r \in Spawned : Terminated(r))
            ~> (pc_main \in {"done", "failed"})

C16_Witness ==
    /\ Len(gpu_list) = 2
    /\ pc_main = "done"
    /\ \A r \in 0..1 : worker[r].pc = "done" /\ Len(CallsOf(r, "task")) = 2

\* the task and the section a configure call was made for: the section's
\* value <<task, section>> is the last positional argument of the call
CfgTask(c) == CHOOSE j \in 1..Len(tasks0) : tasks0[j].name = c.args[Len(c.args)][1]

CfgSection(c) == CHOOSE j \in 1..Len(Sections) : Sections[j] = c.args[Len(c.args)][2]

\* C17: the configure calls of a worker go through the tasks in task-list
\* order and, within a task, through its sections in the order data_loaders,
\* optimizers, scheduler, loss, whatever the order of the keys in the task
\* description; each call is the one of its section.
C17_ConfigureOrder ==
    \A r \in Ranks :
        LET cc == CallsOf(r, "cfg")
        IN  /\ \A a \in 1..Len(cc) :
                    cc[a].m = IF CfgSection(cc[a]) = 1
                              THEN (IF kind = "cnn" THEN "configure_data_loaders"
                                    ELSE "configure_data_loaders_v2")
                              ELSE "configure_" \o Sections[CfgSection(cc[a])]
            /\ \A a \in 1..(Len(cc) - 1) :
                    \/ CfgTask(cc[a]) < CfgTask(cc[a + 1])
                    \/ /\ CfgTask(cc[a]) = CfgTask(cc[a + 1])
                       /\ CfgSection(cc[a]) < CfgSection(cc[a + 1])

C17_Witness ==
    \E r \in Ranks :
        /\ Configured(r)
        /\ Len(tasks0) = 2
        /\ Len(tasks0[1].cfg) = 5
        /\ tasks0[1].cfg[1].k = "scheduler"
        /\ tasks0[1].cfg[5].k = "data_loaders"
        /\ Len(tasks0[2].cfg) = 1
        /\ Len(CallsOf(r, "cfg")) = 5

\* the last call of worker r is a call for the task at which the worker
\* stands: one of its configure calls or the task method itself
LastCallOfCurrentTask(r) ==
    LET calls == worker[r].calls
        last == calls[Len(calls)]
        i == worker[r].i
    IN  /\ calls # <<>>
        /\ \/ last.ph = "cfg" /\ CfgTask(last) = i
           \/ last.ph = "task" /\ last.m = tasks0[i].name

\* worker r stands at a task the engine has no method for, with the
\* configuration of every task applied and every earlier task invoked
AtMissingMethod(r) ==
    /\ worker[r].i \in 1..Len(tasks0)
    /\ tasks0[worker[r].i].name \notin EngineTasks
    /\ \A j \in 1..Len(tasks0) : SectionsIn(hydra_tasks[worker[r].proc][j].cfg) = {}
    /\ Len(CallsOf(r, "cfg")) = Cardinality(TotalSections)
    /\ Len(CallsOf(r, "task")) = worker[r].i - 1

\* C18: with a kind other than 'cnn' and 'gnn' and no data_loaders section in
\* any task, the kind is never found invalid: a worker fails only when a call
\* for its current task raised or the engine lacks the task's method; every
\* section is configured, a worker that completes has invoked every task in
\* list order, and set_dataset is never called.
C18_UnknownKindUndetected ==
    (kind \notin {"cnn", "gnn"} /\ \A j \in 1..Len(tasks0) : ~Has(tasks0[j].cfg, "data_loaders")) =>
        /\ builds = <<>>
        /\ \A r \in Ranks :
            /\ Count(r, "set_dataset") = 0
            /\ worker[r].pc = "failed" => (LastCallOfCurrentTask(r) \/ AtMissingMethod(r))
            /\ Configured(r) => Len(CallsOf(r, "cfg")) = Cardinality(TotalSections)
            /\ worker[r].pc = "done" =>
                    LET tc == CallsOf(r, "task")
                    IN  [j \in 1..Len(tc) |-> tc[j].m] = [j \in 1..Len(tasks0) |-> tasks0[j].name]

C18_Witness ==
    \E r \in Ranks :
        /\ kind = "other"
        /\ worker[r].pc = "done"
        /\ Len(tasks0) = 1
        /\ Len(CallsOf(r, "cfg")) = 1
        /\ Len(CallsOf(r, "task")) = 1
        /\ Count(r, "set_dataset") = 0

\* C19: in multi-accelerator mode every spawned worker consumes the sections
\* of the copy of hydra_config.tasks in its own process: whatever the other
\* workers have done, the tasks a worker has not configured yet are as loaded,
\* the coordinator's copy is as loaded, and a worker that has left the
\* configuration loop has passed every section of every task to exactly one
\* configure call.
C19_OwnCopyPerWorker ==
    Len(gpu_list) > 1 =>
        /\ hydra_tasks[0] = tasks0
        /\ \A r \in Spawned :
            LET own == hydra_tasks[worker[r].proc]
                cc == CallsOf(r, "cfg")
            IN  /\ worker[r].proc = r + 1
                /\ worker[r].pc \in {"setup", "build_model", "instantiate"} => own = tasks0
                /\ worker[r].pc = "configure" =>
                        \A j \in worker[r].i..Len(tasks0) : own[j] = tasks0[j]
                /\ Configured(r) =>
                        /\ Len(cc) = Cardinality(TotalSections)
                        /\ \A e \in TotalSections :
                                Cardinality({a \in 1..Len(cc) : e.v \in Range(cc[a].args)}) = 1

C19_Witness ==
    /\ Len(gpu_list) = 2
    /\ Configured(0)
    /\ Len(CallsOf(0, "cfg")) = 5
    /\ worker[1].pc = "configure"
    /\ worker[1].i = 1
    /\ hydra_tasks[2] = tasks0
    /\ hydra_tasks[1] # tasks0

\* the first task of the list the engine has no method for
FirstMissing ==
    CHOOSE j \in 1..Len(tasks0) :
        /\ tasks0[j].name \notin EngineTasks
        /\ \A h \in 1..(j - 1) : tasks0[h].name \in EngineTasks

\* C20: when the engine has no method for some task, a worker never completes
\* and invokes only tasks that precede that task, each once and in list order;
\* the configuration loop is not cut short by it (a worker in the task loop has
\* configured every section of every task), and a worker that has failed at
\* that task after invoking all the tasks before it has applied the whole
\* configuration.
C20_MissingMethodAtExecution ==
    (\E j \in 1..Len(tasks0) : tasks0[j].name \notin EngineTasks) =>
        \A r \in Ranks :
            LET tc == CallsOf(r, "task")
            IN  /\ worker[r].pc \notin {"teardown", "done"}
                /\ Len(tc) <= FirstMissing - 1
                /\ \A a \in 1..Len(tc) : tc[a].m = tasks0[a].name
                /\ worker[r].pc = "perform" =>
                        /\ worker[r].i <= FirstMissing
                        /\ Len(CallsOf(r, "cfg")) = Cardinality(TotalSections)
                /\ (worker[r].pc = "failed" /\ FirstMissing > 1
                        /\ worker[r].i = FirstMissing /\ Len(tc) = FirstMissing - 1)
                        => AtMissingMethod(r)

C20_Witness ==
    \E r \in Ranks :
        /\ Len(tasks0) = 2
        /\ tasks0[1].name = "train"
        /\ tasks0[2].name = "predict"
        /\ worker[r].pc = "failed"
        /\ worker[r].i = 2
        /\ Len(CallsOf(r, "task")) = 1
        /\ Len(CallsOf(r, "cfg")) = 5
        /\ AtMissingMethod(r)

====
